---- MODULE Spec2Model ----
(***************************************************************************)
(* VirusGenealogy<Virus> (virus_genealogy.h): the node table `graph`, a    *)
(* std::map from identifier to Node, and the three mutating members        *)
(* create, connect and remove.                                             *)
(*                                                                         *)
(* A Virus object lives behind a std::shared_ptr.  A handle is modelled as *)
(* the pair <<id, n>>: the identifier the Virus was built from and a       *)
(* serial number that tells apart two Virus objects built from the same    *)
(* identifier (one erased from the table but still held by some child set, *)
(* one created later).  A child set std::set<std::shared_ptr<Virus>> is    *)
(* ordered by pointer value, which the allocator decides; the children     *)
(* loop of remove is therefore modelled as taking the children in any      *)
(* order.                                                                  *)
(*                                                                         *)
(* Exceptions.  Besides the three exception classes of the header, the     *)
(* statements that allocate can raise std::bad_alloc: make_shared, the     *)
(* inserts into std::set / std::map, the push_backs that grow a vector,    *)
(* and Virus::get_id() handing out a copy of the identifier.  A call takes *)
(* a fault index f: 0 runs without allocation failure, f > 0 makes the     *)
(* f-th allocating statement the call reaches throw.  Once an exception is *)
(* in flight only handlers run; the one handler that allocates (line 267)  *)
(* may fail as well.  Comparisons of identifiers, lookups and erases are   *)
(* taken not to throw.                                                     *)
(*                                                                         *)
(* Undefined behaviour (dereferencing graph.end(), using an iterator to an *)
(* erased element, unbounded recursion) ends the call with out = "ub":     *)
(* the call neither returns nor raises in any defined way, nothing is      *)
(* asserted about the program from there on and no further call is         *)
(* modelled; the graph is shown as it stood at the invalid access.         *)
(***************************************************************************)
EXTENDS Integers, Sequences, FiniteSets, TLC

\* ---- bounds ------------------------------------------------------------
MaxId == 3
MaxSerial == 1
MaxParents == 2
MaxOps == 4
MaxFault == 12

\* ---- the identifier and handle universes --------------------------------
stem_id == 0

Ids == 0 .. MaxId

Handles == Ids \X (0 .. MaxSerial)

get_id(h) == h[1]

VARIABLES graph, last, ops

vars == <<graph, last, ops>>

\* class Node: the constructor builds the Virus and leaves both sets empty.
Node(h) == [virus |-> h, parent_ids |-> {}, children_virus_ptrs |-> {}]

\* graph.find(id) != graph.end()
exists(g, id) == id \in DOMAIN g

\* the Virus objects some shared_ptr still owns
Owned(g) ==
    {g[n].virus : n \in DOMAIN g}
        \cup UNION {g[n].children_virus_ptrs : n \in DOMAIN g}

\* std::vector growth: push_back of the k-th element allocates when the
\* size has reached the capacity (capacities 0, 1, 2, 4, 8).
VecGrows(k) == k \in {1, 2, 3, 5, 9}

\* fault index after an allocating statement that did not throw
Dec(f) == IF f > 0 THEN f - 1 ELSE 0

Range(s) == {s[i] : i \in 1 .. Len(s)}

SetChildren(g, p, c) ==
    [g EXCEPT ![p].children_virus_ptrs = c]

SetParents(g, n, ps) ==
    [g EXCEPT ![n].parent_ids = ps]

\* what a call hands back: the table; how the call ended ("ok" for a normal
\* return, else the exception class, or "ub"); the source line of the
\* statement that threw (0 when none did; for "ub" without an exception,
\* the line of the invalid access); the fault index left over; the number
\* of compensating statements the handlers ran; and, for remove, the
\* statements it ran in the order it ran them (see Event)
Result(g, out, at, f, rb) ==
    [g |-> g, out |-> out, at |-> at, f |-> f, rb |-> rb, log |-> <<>>]

\* a step of remove on node n: "loop", the children loop starts at line
\* 260 over the child set cs; "child", the body of lines 261-270 ended
\* without exception for the child cs = {c}; "unlink", lines 273-275;
\* "erase", line 276
Event(ev, n, cs) == [ev |-> ev, n |-> n, cs |-> cs]

WithLog(r, log) == [r EXCEPT !.log = log]

\* the results rs of what a call does next, after the steps pre
Logged(pre, rs) == {WithLog(r, pre \o r.log) : r \in rs}

\* ---- create --------------------------------------------------------------
\* lines 180-186: copy the k-th identifier (line 180), look it up, push its
\* iterator (line 185, allocating when the vector grows)
RECURSIVE ValidateParents(_, _, _, _)
ValidateParents(g, parent_ids, k, f) ==
    IF k > Len(parent_ids) THEN [out |-> "ok", at |-> 0, f |-> f]
    ELSE IF f = 1 THEN [out |-> "bad_alloc", at |-> 180, f |-> 0]
    ELSE IF ~exists(g, parent_ids[k])
    THEN [out |-> "VirusNotFound", at |-> 183, f |-> Dec(f)]
    ELSE IF VecGrows(k) /\ Dec(f) = 1
    THEN [out |-> "bad_alloc", at |-> 185, f |-> 0]
    ELSE ValidateParents(g, parent_ids, k + 1,
                         IF VecGrows(k) THEN Dec(Dec(f)) ELSE Dec(f))

\* lines 196-199 leaving every child set as it is
CreateLinksNowhere(g, h, parent_ids, k, f) ==
    [g |-> g, f |-> f, at |-> 0, m |-> Len(parent_ids)]

\* lines 196-199: insert the new handle into each parent's child set and
\* push the returned iterator; m counts the iterators pushed so far.  The
\* set insert allocates only when the handle is not yet in the set.
RECURSIVE CreateLinks(_, _, _, _, _)
CreateLinks(g, h, parent_ids, k, f) ==
    IF k > Len(parent_ids)
    THEN [g |-> g, f |-> f, at |-> 0, m |-> Len(parent_ids)]
    ELSE LET p == parent_ids[k]
             added == h \notin g[p].children_virus_ptrs
         IN IF added /\ f = 1
            THEN [g |-> g, f |-> 0, at |-> 197, m |-> k - 1]
            ELSE LET f1 == IF added THEN Dec(f) ELSE f
                     g1 == SetChildren(g, p, g[p].children_virus_ptrs \cup {h})
                 IN IF VecGrows(k) /\ f1 = 1
                    THEN [g |-> g1, f |-> 0, at |-> 198, m |-> k - 1]
                    ELSE CreateLinks(g1, h, parent_ids, k + 1,
                                     IF VecGrows(k) THEN Dec(f1) ELSE f1)

\* lines 201-206, the handler: erase edges_to_parents[i] from the child
\* set of parents_its[i] for every iterator pushed, then rethrow.  Erasing
\* an iterator whose element is already gone is undefined.
RECURSIVE EraseEdges(_, _, _, _, _, _)
EraseEdges(g, h, parent_ids, i, m, at) ==
    IF i > m THEN Result(g, "bad_alloc", at, 0, m)
    ELSE LET p == parent_ids[i]
         IN IF h \notin g[p].children_virus_ptrs
            THEN Result(g, "ub", at, 0, i - 1)
            ELSE EraseEdges(SetChildren(g, p, g[p].children_virus_ptrs \ {h}),
                            h, parent_ids, i + 1, m, at)

\* an early return that is never taken
NothingToCreateNever(parent_ids) == FALSE

\* line 170: parent_ids.empty()
NothingToCreate(parent_ids) == parent_ids = <<>>

\* a collision test that never fires
AlreadyCreatedNever(g, id) == FALSE

\* lines 173-174: graph.find(id) != graph.end()
AlreadyCreated(g, id) == exists(g, id)

\* a validation loop that inserts the handle of the node to come into the
\* child set of each parent it has found, and leaves it there
RECURSIVE RejectParentsLinked(_, _, _, _)
RejectParentsLinked(g, id, parent_ids, v) ==
    IF parent_ids = <<>> \/ ~exists(g, Head(parent_ids))
    THEN Result(g, v.out, v.at, v.f, 0)
    ELSE RejectParentsLinked(
             SetChildren(g, Head(parent_ids),
                         g[Head(parent_ids)].children_virus_ptrs
                             \cup {<<id, 0>>}),
             id, Tail(parent_ids), v)

\* lines 182-185 throwing: parents_its is dropped, the table was not touched
RejectParents(g, id, parent_ids, v) == Result(g, v.out, v.at, v.f, 0)

\* lines 168-207
create(g, id, parent_ids, f) ==
    IF NothingToCreate(parent_ids) THEN Result(g, "ok", 0, f, 0)
    ELSE IF AlreadyCreated(g, id)
    THEN Result(g, "VirusAlreadyCreated", 175, f, 0)
    ELSE
    LET v == ValidateParents(g, parent_ids, 1, f)
        free == {n \in 0 .. MaxSerial : <<id, n>> \notin Owned(g)}
    IN  IF v.out # "ok" THEN RejectParents(g, id, parent_ids, v)
        \* line 188: make_shared<Virus>(id)
        ELSE IF free = {} \/ v.f = 1
        THEN Result(g, "bad_alloc", 188, IF v.f <= 1 THEN 0 ELSE v.f, 0)
        ELSE
        LET h == <<id, CHOOSE n \in free : \A n2 \in free : n <= n2>>
            f1 == Dec(v.f)
            \* lines 191-193: copy each identifier into new_node.parent_ids
            np == Len(parent_ids)
        IN  IF f1 \in 1 .. np THEN Result(g, "bad_alloc", 192, 0, 0)
            ELSE
            LET f2 == IF f1 > np THEN f1 - np ELSE 0
                new_node == [Node(h) EXCEPT !.parent_ids = Range(parent_ids)]
                l == CreateLinks(g, h, parent_ids, 1, f2)
            IN  IF l.at # 0 THEN EraseEdges(l.g, h, parent_ids, 1, l.m, l.at)
                \* line 200: graph.insert({id, new_node})
                ELSE IF l.f = 1
                THEN EraseEdges(l.g, h, parent_ids, 1, Len(parent_ids), 200)
                ELSE Result((id :> new_node) @@ l.g, "ok", 0, Dec(l.f), 0)

\* ---- connect -------------------------------------------------------------
\* connect with the handler of lines 235-238 left out
connectNoRollback(g, child_id, parent_id, f) ==
    IF ~exists(g, child_id) \/ ~exists(g, parent_id)
    THEN Result(g, "VirusNotFound", 226, f, 0)
    ELSE IF parent_id \in g[child_id].parent_ids
    THEN Result(g, "ok", 0, f, 0)
    ELSE IF f = 1 THEN Result(g, "bad_alloc", 229, 0, 0)
    ELSE
    LET g1 == SetParents(g, child_id, g[child_id].parent_ids \cup {parent_id})
        h == g1[child_id].virus
        added == h \notin g1[parent_id].children_virus_ptrs
    IN  IF added /\ Dec(f) = 1 THEN Result(g1, "bad_alloc", 234, 0, 1)
        ELSE Result(SetChildren(g1, parent_id,
                                g1[parent_id].children_virus_ptrs \cup {h}),
                    "ok", 0, IF added THEN Dec(Dec(f)) ELSE Dec(f), 0)

\* a connect that refuses an edge it already has
ConnectAgainRaises(g, f) == Result(g, "VirusAlreadyCreated", 229, f, 0)

\* lines 229-231: insert(parent_id).second is false, nothing was inserted
\* or allocated, return
ConnectAgain(g, f) == Result(g, "ok", 0, f, 0)

\* a connect that records the parent on the child before it looks the
\* parent up
ConnectNotFoundLate(g, child_id, parent_id, f) ==
    Result(IF exists(g, child_id)
           THEN SetParents(g, child_id,
                           g[child_id].parent_ids \cup {parent_id})
           ELSE g,
           "VirusNotFound", 226, f, 0)

\* lines 225-227: the throw, before anything was inserted
ConnectNotFound(g, child_id, parent_id, f) ==
    Result(g, "VirusNotFound", 226, f, 0)

\* lines 221-239
connect(g, child_id, parent_id, f) ==
    IF ~exists(g, child_id) \/ ~exists(g, parent_id)
    THEN ConnectNotFound(g, child_id, parent_id, f)
    ELSE IF parent_id \in g[child_id].parent_ids
    THEN ConnectAgain(g, f)
    \* line 229: the insert that records the parent allocates a set node
    ELSE IF f = 1 THEN Result(g, "bad_alloc", 229, 0, 0)
    ELSE
    LET g1 == SetParents(g, child_id, g[child_id].parent_ids \cup {parent_id})
        f1 == Dec(f)
        h == g1[child_id].virus
        \* line 234 allocates only when the handle is not yet in the set
        added == h \notin g1[parent_id].children_virus_ptrs
    IN  IF added /\ f1 = 1
        \* lines 235-238: take the parent identifier out again, rethrow
        THEN Result(SetParents(g1, child_id,
                               g1[child_id].parent_ids \ {parent_id}),
                    "bad_alloc", 234, 0, 1)
        ELSE Result(SetChildren(g1, parent_id,
                                g1[parent_id].children_virus_ptrs \cup {h}),
                    "ok", 0, IF added THEN Dec(f1) ELSE f1, 0)

\* ---- remove --------------------------------------------------------------
\* the loop of lines 273-275 stopping after the first parent
EraseFromFirstParent(g, h, parents) ==
    IF parents = {} THEN [g |-> g, ub |-> FALSE]
    ELSE LET p == CHOOSE x \in parents : \A y \in parents : x <= y
         IN IF ~exists(g, p) THEN [g |-> g, ub |-> TRUE]
            ELSE [g |-> SetChildren(g, p, g[p].children_virus_ptrs \ {h}),
                  ub |-> FALSE]

\* lines 273-275: erase the handle from the child set of every recorded
\* parent iterator (parent_ids is a std::set, so in identifier order).  An
\* iterator recorded as graph.end(), or to a node erased meanwhile, is
\* invalid.
RECURSIVE EraseFromParents(_, _, _)
EraseFromParents(g, h, parents) ==
    IF parents = {} THEN [g |-> g, ub |-> FALSE]
    ELSE LET p == CHOOSE x \in parents : \A y \in parents : x <= y
         IN IF ~exists(g, p) THEN [g |-> g, ub |-> TRUE]
            ELSE EraseFromParents(
                     SetChildren(g, p, g[p].children_virus_ptrs \ {h}),
                     h, parents \ {p})

\* lines 273-276 without the graph.erase(id) of line 276
RemoveCommitKeepsNode(r, id, parents) ==
    IF r.out # "ok" THEN r
    ELSE LET e == EraseFromParents(r.g, r.g[id].virus, parents)
         IN IF e.ub THEN WithLog(Result(e.g, "ub", 274, 0, r.rb), r.log)
            ELSE WithLog(Result(e.g, "ok", 0, r.f, r.rb),
                         r.log \o <<Event("unlink", id, {})>>)

\* lines 273-276 without the loop of lines 273-275
RemoveCommitKeepsEdges(r, id, parents) ==
    IF r.out # "ok" THEN r
    ELSE WithLog(Result([n \in DOMAIN r.g \ {id} |-> r.g[n]],
                        "ok", 0, r.f, r.rb),
                 r.log \o <<Event("erase", id, {})>>)

\* lines 273-276 run although the children loop was left by an exception
RemoveCommitAnyway(r, id, parents) ==
    IF r.out = "ub" \/ ~exists(r.g, id) THEN r
    ELSE LET e == EraseFromParents(r.g, r.g[id].virus,
                                   parents \cap DOMAIN r.g)
         IN WithLog(Result([n \in DOMAIN e.g \ {id} |-> e.g[n]],
                           r.out, r.at, r.f, r.rb),
                    r.log \o <<Event("unlink", id, {}),
                               Event("erase", id, {})>>)

\* lines 273-276, reached when the children loop ended without exception
RemoveCommit(r, id, parents) ==
    IF r.out # "ok" THEN r
    ELSE LET e == EraseFromParents(r.g, r.g[id].virus, parents)
         IN IF e.ub THEN WithLog(Result(e.g, "ub", 274, 0, r.rb), r.log)
            ELSE WithLog(Result([n \in DOMAIN e.g \ {id} |-> e.g[n]],
                                "ok", 0, r.f, r.rb),
                         r.log \o <<Event("unlink", id, {}),
                                    Event("erase", id, {})>>)

\* a guard that lets every identifier through
IsStemNever(id) == FALSE

\* line 246
IsStem(id) == id = stem_id

\* line 262 left out
SeverParentNoop(g, cid, id) == g

\* line 262: child_node->second.parent_ids.erase(id)
SeverParent(g, cid, id) == SetParents(g, cid, g[cid].parent_ids \ {id})

\* a test that never sends the loop into the nested removal
OrphanedNever(g, cid) == FALSE

\* line 263: child_node->second.parent_ids.empty()
Orphaned(g, cid) == g[cid].parent_ids = {}

\* line 267 with the two identifiers swapped
RestoreParentSwapped(g, cid, id) ==
    IF exists(g, id) THEN SetParents(g, id, g[id].parent_ids \cup {cid})
    ELSE g

\* line 267: child_node->second.parent_ids.insert(id)
RestoreParent(g, cid, id) == SetParents(g, cid, g[cid].parent_ids \cup {id})

\* remove(g, id, f, frames) is the set of ways the call can end: one for
\* each order in which the children loops can run.  frames holds, for every
\* active invocation, the table it was entered with and its identifier: a
\* nested invocation entered with the same pair never returns.
RECURSIVE remove(_, _, _, _)
RECURSIVE RemoveChildren(_, _, _, _, _, _)

\* lines 260-271: rest is the part of children_virus_ptrs not yet visited
RemoveChildren(g, id, rest, f, frames, rb) ==
    IF rest = {} THEN {Result(g, "ok", 0, f, rb)}
    ELSE UNION {
        \* line 261: child->get_id() hands out a copy of the identifier
        IF f = 1 THEN {Result(g, "bad_alloc", 261, 0, rb)}
        ELSE
        LET cid == get_id(child)
        IN  \* graph.find(...) == graph.end(), dereferenced at line 262
            IF ~exists(g, cid) THEN {Result(g, "ub", 262, 0, rb)}
            ELSE
            LET g1 == SeverParent(g, cid, id)
                done == <<Event("child", id, {child})>>
            IN  IF ~Orphaned(g1, cid)
                THEN Logged(done,
                            RemoveChildren(g1, id, rest \ {child}, Dec(f),
                                           frames, rb))
                ELSE UNION {
                    IF r.out = "ub"
                    THEN {WithLog(Result(r.g, "ub", r.at, 0, rb + r.rb),
                                  r.log)}
                    ELSE IF r.out = "ok"
                    THEN \* the loop goes on over the child set of node id
                         IF ~exists(r.g, id)
                         THEN {WithLog(Result(r.g, "ub", 260, 0, rb + r.rb),
                                       r.log)}
                         ELSE Logged(r.log \o done,
                                     RemoveChildren(r.g, id, rest \ {child},
                                                    r.f, frames, rb + r.rb))
                    \* lines 266-269: put id back and rethrow; the insert
                    \* allocates a set node, and when that fails its
                    \* std::bad_alloc leaves the handler instead
                    ELSE IF ~exists(r.g, cid)
                    THEN {WithLog(Result(r.g, "ub", 267, 0, rb + r.rb),
                                  r.log)}
                    ELSE {WithLog(Result(RestoreParent(r.g, cid, id),
                                         r.out, r.at, r.f, rb + r.rb + 1),
                                  r.log),
                          WithLog(Result(r.g, "bad_alloc", 267, r.f,
                                         rb + r.rb),
                                  r.log)}
                    : r \in remove(g1, cid, Dec(f), frames) }
        : child \in rest }

\* lines 245-277
remove(g, id, f, frames) ==
    IF IsStem(id) THEN {Result(g, "TriedToRemoveStemVirus", 247, f, 0)}
    ELSE IF ~exists(g, id) THEN {Result(g, "VirusNotFound", 251, f, 0)}
    ELSE IF <<g, id>> \in frames THEN {Result(g, "ub", 265, 0, 0)}
    ELSE
    LET parents == g[id].parent_ids
        \* lines 256-258: copy each parent identifier, push its iterator
        np == Cardinality(parents)
    IN  IF f \in 1 .. np THEN {Result(g, "bad_alloc", 257, 0, 0)}
        ELSE {RemoveCommit(r, id, parents) :
                 r \in Logged(<<Event("loop", id, g[id].children_virus_ptrs)>>,
                              RemoveChildren(g, id, g[id].children_virus_ptrs,
                                             IF f > np THEN f - np ELSE 0,
                                             frames \cup {<<g, id>>}, 0))}

\* ---- the program ---------------------------------------------------------
Faults == 0 .. MaxFault

ParentLists == UNION {[1 .. n -> Ids] : n \in 0 .. MaxParents}

\* the record of the latest call: what was called on which identifier, how
\* it ended and at which line, how many compensating statements ran, how
\* many nodes left the table, and how many children of a removed node
\* stayed in it
Called(op, id, g, r) ==
    [op |-> op, id |-> id, out |-> r.out, at |-> r.at, rb |-> r.rb,
     gone |-> Cardinality(DOMAIN g \ DOMAIN r.g),
     kept |-> IF op = "remove" /\ exists(g, id)
              THEN Cardinality({c \in g[id].children_virus_ptrs :
                                   exists(r.g, get_id(c))})
              ELSE 0]

\* VirusGenealogy(stem_id), lines 96-98
Init ==
    /\ graph = (stem_id :> Node(<<stem_id, 0>>))
    /\ last = [op |-> "new", id |-> stem_id, out |-> "ok", at |-> 0,
               rb |-> 0, gone |-> 0, kept |-> 0]
    /\ ops = 0

Running == ops < MaxOps /\ last.out # "ub"

Create(id, parent_ids, f) ==
    /\ Running
    /\ LET r == create(graph, id, parent_ids, f)
       IN /\ r.f = 0
          /\ graph' = r.g
          /\ last' = Called("create", id, graph, r)
    /\ ops' = ops + 1

Connect(child_id, parent_id, f) ==
    /\ Running
    /\ LET r == connect(graph, child_id, parent_id, f)
       IN /\ r.f = 0
          /\ graph' = r.g
          /\ last' = Called("connect", child_id, graph, r)
    /\ ops' = ops + 1

Remove(id, f) ==
    /\ Running
    /\ \E r \in remove(graph, id, f, {}) :
          /\ r.f = 0
          /\ graph' = r.g
          /\ last' = Called("remove", id, graph, r)
    /\ ops' = ops + 1

\* the fault indices that name an allocating statement of the call: a run
\* with an index no statement reaches tells how many it passes
Probe == MaxFault + 1

Passed(rs) ==
    LET n == {Probe - r.f : r \in rs}
    IN  CHOOSE m \in n : \A k \in n : k <= m

CreateFaults(id, parent_ids) ==
    0 .. Passed({create(graph, id, parent_ids, Probe)})

ConnectFaults(child_id, parent_id) ==
    0 .. Passed({connect(graph, child_id, parent_id, Probe)})

RemoveFaults(id) == 0 .. Passed(remove(graph, id, Probe, {}))

Next ==
    \/ \E id \in Ids, parent_ids \in ParentLists :
          \E f \in CreateFaults(id, parent_ids) : Create(id, parent_ids, f)
    \/ \E child_id \in Ids, parent_id \in Ids :
          \E f \in ConnectFaults(child_id, parent_id) :
              Connect(child_id, parent_id, f)
    \/ \E id \in Ids : \E f \in RemoveFaults(id) : Remove(id, f)

Spec == Init /\ [][Next]_vars

\* ---- acyclic use ---------------------------------------------------------
\* the edges either view records: p is among n's parent_ids, or a handle
\* with identifier n is in p's child set
Edges(g) ==
    {e \in Ids \X Ids :
        \/ exists(g, e[2]) /\ e[1] \in g[e[2]].parent_ids
        \/ exists(g, e[1]) /\ \E c \in g[e[1]].children_virus_ptrs :
                                  get_id(c) = e[2]}

RECURSIVE Strip(_, _)
Strip(N, E) ==
    LET sources == {n \in N : \A m \in N : <<m, n>> \notin E}
    IN  IF sources = {} THEN N ELSE Strip(N \ sources, E)

Acyclic(g) == Strip(Ids, Edges(g)) = {}

\* callers that never build a cycle; allocation may fail
NextDag ==
    \/ \E id \in Ids, parent_ids \in ParentLists :
          \E f \in CreateFaults(id, parent_ids) :
              Create(id, parent_ids, f) /\ Acyclic(graph')
    \/ \E child_id \in Ids, parent_id \in Ids :
          \E f \in ConnectFaults(child_id, parent_id) :
              Connect(child_id, parent_id, f) /\ Acyclic(graph')
    \/ \E id \in Ids : \E f \in RemoveFaults(id) :
          Remove(id, f) /\ Acyclic(graph')

SpecDag == Init /\ [][NextDag]_vars

\* callers that never build a cycle, and calls that all return normally
Returned == last'.out = "ok" /\ Acyclic(graph')

NextOk ==
    \/ \E id \in Ids, parent_ids \in ParentLists :
          Create(id, parent_ids, 0) /\ Returned
    \/ \E child_id \in Ids, parent_id \in Ids :
          Connect(child_id, parent_id, 0) /\ Returned
    \/ \E id \in Ids : Remove(id, 0) /\ Returned

SpecOk == Init /\ [][NextOk]_vars

\* ---- properties ----------------------------------------------------------
\* the call ended in a way the caller observes: it returned or it raised
Observed == last.out # "ub"

Raised == last.out \notin {"ok", "ub"}

NonRoot(g) == DOMAIN g \ {stem_id}

NoStaleChildReferences ==
    \A p \in DOMAIN graph : \A c \in graph[p].children_virus_ptrs :
        /\ exists(graph, get_id(c))
        /\ graph[get_id(c)].virus = c
        /\ p \in graph[get_id(c)].parent_ids

\* C2 witness: a remove erased a node whose parent carries on with another
\* child.
SurvivingParentAfterRemove ==
    /\ last.op = "remove" /\ last.out = "ok" /\ last.gone > 0
    /\ \E p \in DOMAIN graph : graph[p].children_virus_ptrs # {}

\* C3: the root is in the table in every state, and remove(root) raises
\* TriedToRemoveStemVirus and leaves the table as it was, whatever the
\* fault index.
RootStays ==
    /\ exists(graph, stem_id)
    /\ \A f \in Faults : \A r \in remove(graph, stem_id, f, {}) :
           r.out = "TriedToRemoveStemVirus" /\ r.g = graph
    /\ (last.op = "remove" /\ last.id = stem_id)
           => last.out = "TriedToRemoveStemVirus"

\* C3 witness: remove(root) was called on a table with other nodes and
\* raised.
RemoveRootRefused ==
    /\ last.op = "remove" /\ last.id = stem_id
    /\ last.out = "TriedToRemoveStemVirus"
    /\ NonRoot(graph) # {}

\* get_parents(id), lines 135-143, for an identifier of the table: the
\* parent set as a sequence in identifier order
RECURSIVE SortedSeq(_)
SortedSeq(S) ==
    IF S = {} THEN <<>>
    ELSE LET x == CHOOSE a \in S : \A b \in S : a <= b
         IN <<x>> \o SortedSeq(S \ {x})

get_parents(g, id) == SortedSeq(g[id].parent_ids)

\* C4 as stated: after any sequence of calls the root's parent set is empty
\* and get_parents(root) is the empty sequence.
RootHasNoParents ==
    /\ graph[stem_id].parent_ids = {}
    /\ get_parents(graph, stem_id) = <<>>

\* C4 amended: whenever the graph is acyclic, the root's parent set is
\* empty and get_parents(root) is the empty sequence.
RootHasNoParentsWhileAcyclic ==
    Acyclic(graph) => RootHasNoParents

\* C4 witness: an acyclic graph with an edge that connect added.
AcyclicAfterConnect ==
    /\ last.op = "connect" /\ last.out = "ok"
    /\ Acyclic(graph)
    /\ \E n \in NonRoot(graph) : Cardinality(graph[n].parent_ids) > 1

\* C5: when a call has returned or raised, every node other than the root
\* has at least one parent.
NonRootHasParent ==
    Observed => \A n \in NonRoot(graph) : graph[n].parent_ids # {}

\* the nodes the root reaches through child sets without passing through
\* the node skip
RECURSIVE ReachFrom(_, _, _)
ReachFrom(g, R, skip) ==
    LET step == {get_id(c) :
                    c \in UNION {g[n].children_virus_ptrs : n \in R}}
        more == (R \cup (step \cap DOMAIN g)) \ {skip}
    IN  IF more = R THEN R ELSE ReachFrom(g, more, skip)

RemoveReturned == last'.op = "remove" /\ last'.out = "ok"

Erased == DOMAIN graph \ DOMAIN graph'

RemoveFailureLeavesGraph ==
    [][(last'.op = "remove" /\ last'.out \notin {"ok", "ub"})
          => graph' = graph]_vars

\* C9: when create fails at the insert into a parent's child set (line 197)
\* or at the insert into the table (line 200), the error propagates and the
\* graph equals the graph before the call.
CreateFailureLeavesGraph ==
    [][(last'.op = "create" /\ last'.at \in {197, 200})
          => last'.out = "bad_alloc" /\ graph' = graph]_vars

\* C10: when connect fails at the insert into the parent's child set (line
\* 234), after the parent was recorded on the child, the error propagates
\* and the graph equals the graph before the call.
ConnectFailureLeavesGraph ==
    [][(last'.op = "connect" /\ last'.at = 234)
          => last'.out = "bad_alloc" /\ graph' = graph]_vars

\* C10 witness: connect raised at line 234 and its handler ran.
ConnectRolledBack ==
    /\ last.op = "connect" /\ last.at = 234 /\ last.rb = 1
    /\ last.out = "bad_alloc"

HasAbsentParent(g, parent_ids) ==
    \E k \in 1 .. Len(parent_ids) : ~exists(g, parent_ids[k])

\* C12 as stated: create with a parent list that holds an identifier absent
\* from the table raises VirusNotFound and leaves the graph as it was.
CreateAbsentParentRaises ==
    \A id \in Ids : \A parent_ids \in ParentLists :
        HasAbsentParent(graph, parent_ids) =>
            LET r == create(graph, id, parent_ids, 0)
            IN  r.out = "VirusNotFound" /\ r.g = graph

\* C12 amended: for an identifier that is not in the table, create with a
\* parent list that holds an absent identifier raises VirusNotFound, or
\* std::bad_alloc when an allocation fails before the absent identifier is
\* looked up, and leaves the graph as it was.
CreateNewAbsentParentRaises ==
    \A id \in Ids \ DOMAIN graph : \A parent_ids \in ParentLists :
        HasAbsentParent(graph, parent_ids) =>
            /\ create(graph, id, parent_ids, 0).out = "VirusNotFound"
            /\ \A f \in Faults :
                   LET r == create(graph, id, parent_ids, f)
                   IN  /\ r.g = graph
                       /\ \/ r.out = "VirusNotFound"
                          \/ r.out = "bad_alloc" /\ r.at \in {180, 185}

\* C12 witness: a create raised VirusNotFound on a table where some node
\* has children, and its identifier is still not in the table.
CreateRefusedAbsentParent ==
    /\ last.op = "create" /\ last.out = "VirusNotFound"
    /\ ~exists(graph, last.id)
    /\ \E p \in DOMAIN graph : graph[p].children_virus_ptrs # {}

ConnectIsIdempotent ==
    Observed =>
    \A child_id \in DOMAIN graph : \A parent_id \in DOMAIN graph :
        LET once == connect(graph, child_id, parent_id, 0)
            twice == connect(once.g, child_id, parent_id, 0)
        IN  /\ once.out = "ok" /\ twice.out = "ok"
            /\ twice.g = once.g
            /\ parent_id \in once.g[child_id].parent_ids
            /\ once.g[child_id].virus
                   \in once.g[parent_id].children_virus_ptrs
            /\ parent_id \in graph[child_id].parent_ids =>
                   \A f \in Faults :
                       LET r == connect(graph, child_id, parent_id, f)
                       IN  r.out = "ok" /\ r.g = graph /\ r.f = f

\* C14 witness: a connect returned normally on a node other than the root
\* that has a single parent, in an acyclic graph where every other node has
\* parents too.
ConnectReturnedOnKnownParent ==
    /\ last.op = "connect" /\ last.out = "ok"
    /\ last.id # stem_id
    /\ Cardinality(graph[last.id].parent_ids) = 1
    /\ Acyclic(graph)
    /\ \A n \in NonRoot(graph) : graph[n].parent_ids # {}

\* C15: connect raises VirusNotFound when the child or the parent is not
\* in the table, remove raises VirusNotFound for an identifier that is not
\* in the table and is not the root, and either leaves the graph as it
\* was, whatever the fault index.
AbsentIdentifierRaisesNotFound ==
    /\ \A child_id \in Ids : \A parent_id \in Ids :
           (~exists(graph, child_id) \/ ~exists(graph, parent_id)) =>
               \A f \in Faults :
                   LET r == connect(graph, child_id, parent_id, f)
                   IN  r.out = "VirusNotFound" /\ r.g = graph
    /\ \A id \in Ids \ {stem_id} :
           ~exists(graph, id) =>
               \A f \in Faults :
                   LET rs == remove(graph, id, f, {})
                   IN  /\ rs # {}
                       /\ \A r \in rs :
                              r.out = "VirusNotFound" /\ r.g = graph
    /\ (last.op = "remove" /\ last.out = "VirusNotFound")
           => ~exists(graph, last.id) /\ last.id # stem_id /\ last.gone = 0

\* C15 witness: a remove raised VirusNotFound on a table that holds more
\* than the root.
RemoveRefusedAbsent ==
    /\ last.op = "remove" /\ last.out = "VirusNotFound"
    /\ ~exists(graph, last.id)
    /\ NonRoot(graph) # {}

\* ---- the order of the statements of remove ------------------------------
ErasedIn(log) == {log[j].n : j \in {k \in 1 .. Len(log) : log[k].ev = "erase"}}

\* log[j] erases node n: the children loop of n started at some i < j; every
\* child that loop started with was processed without exception between i
\* and j; every nested removal that started in between has erased its node
\* before j; nothing happened to n itself in between; the statement before
\* j unlinked n from its parents; and nothing happens to n after j
ErasedInOrder(log, j) ==
    LET n == log[j].n
        starts == {i \in 1 .. j - 1 : log[i].ev = "loop" /\ log[i].n = n}
    IN  /\ starts # {}
        /\ j > 1 /\ log[j - 1].ev = "unlink" /\ log[j - 1].n = n
        /\ LET i == CHOOSE a \in starts : \A b \in starts : b <= a
               inside == (i + 1) .. (j - 2)
           IN  /\ \A c \in log[i].cs :
                      \E k \in inside : log[k] = Event("child", n, {c})
               /\ \A k \in inside :
                      /\ log[k].n = n => log[k].ev = "child"
                      /\ log[k].ev = "loop" =>
                             \E e \in inside :
                                 e > k /\ log[e] = Event("erase", log[k].n, {})
        /\ \A k \in (j + 1) .. Len(log) : log[k].n # n

\* C16: in every reachable state, whatever the fault index and the order of
\* the children, remove unlinks and erases a node, target or cascade victim,
\* only after the children loop of that node has processed every child
\* without exception, after every victim removed through it was erased, and
\* never while that loop runs; the nodes the statements erase are the nodes
\* that leave the table, the target last and only when the call returns.
RemoveErasesInOrder ==
    \A id \in Ids : \A f \in Faults : \A r \in remove(graph, id, f, {}) :
        /\ \A j \in 1 .. Len(r.log) :
               r.log[j].ev = "erase" => ErasedInOrder(r.log, j)
        /\ ~(r.out = "ub" /\ r.at = 260)
        /\ ErasedIn(r.log) = DOMAIN graph \ DOMAIN r.g
        /\ r.out = "ok" <=> id \in ErasedIn(r.log)
        /\ r.out = "ok" => r.log[Len(r.log)] = Event("erase", id, {})

\* C16 witness: a remove returned after erasing its target, a victim and a
\* victim of that victim.
CascadeTwoDeep ==
    /\ last.op = "remove" /\ last.out = "ok" /\ last.gone = 3
    /\ NonRoot(graph) = {}

\* C17: on every acyclic graph the calls reach, every remove returns or
\* raises, after at most one removal per node of the table, and erases no
\* node twice.
RemoveCompletes ==
    \A id \in Ids : \A f \in Faults : \A r \in remove(graph, id, f, {}) :
        LET loops == {j \in 1 .. Len(r.log) : r.log[j].ev = "loop"}
            erases == {j \in 1 .. Len(r.log) : r.log[j].ev = "erase"}
        IN  /\ r.out # "ub"
            /\ Cardinality(loops) <= Cardinality(DOMAIN graph)
            /\ Cardinality(erases) = Cardinality(ErasedIn(r.log))

\* ---- the shape of the graph ----------------------------------------------
\* C18: after calls that all returned and kept the graph acyclic, every
\* node of the table is reached from the root through child sets.
EveryNodeReachable ==
    DOMAIN graph = ReachFrom(graph, {stem_id}, MaxId + 1)

\* C18 witness: a remove returned and left the root with at least two other
\* nodes.
NodesLeftAfterRemove ==
    /\ last.op = "remove" /\ last.out = "ok" /\ last.gone > 0
    /\ Cardinality(NonRoot(graph)) >= 2

\* C19: a create or a remove that starts on an acyclic graph leaves an
\* acyclic graph, however it ends; a step from an acyclic graph to a cyclic
\* one is a connect that returned; and connect returns normally for every
\* pair of identifiers of the table, the pairs that close a cycle included.
OnlyConnectIntroducesCycle ==
    /\ [][Acyclic(graph) =>
              /\ last'.op \in {"create", "remove"} => Acyclic(graph')
              /\ ~Acyclic(graph') =>
                     (last'.op = "connect" /\ last'.out = "ok")]_vars
    /\ [](Observed =>
             \A child_id \in DOMAIN graph : \A parent_id \in DOMAIN graph :
                 connect(graph, child_id, parent_id, 0).out = "ok")

\* C19 witness: a connect returned and the graph has a cycle through the
\* child it was called on.
CycleAfterConnect ==
    /\ last.op = "connect" /\ last.out = "ok"
    /\ ~Acyclic(graph)
    /\ Acyclic([n \in DOMAIN graph \ {last.id} |->
                   [graph[n] EXCEPT
                       !.parent_ids = @ \ {last.id},
                       !.children_virus_ptrs =
                           {c \in @ : get_id(c) # last.id}]])
    /\ Cardinality(DOMAIN graph) >= 3

\* the parent list without the repetitions, first occurrences kept
RECURSIVE Dedup(_)
Dedup(parent_ids) ==
    IF parent_ids = <<>> THEN <<>>
    ELSE LET front == Dedup(SubSeq(parent_ids, 1, Len(parent_ids) - 1))
             x == parent_ids[Len(parent_ids)]
         IN IF x \in Range(front) THEN front ELSE Append(front, x)

\* C20: for a new identifier and a list of existing parents that repeats
\* one, create ends as it ends on the list without repetitions and leaves
\* the same graph, and when graph.insert (line 200) fails, after the
\* child-set insertions, std::bad_alloc propagates and the graph is the
\* graph before the call.
DuplicateParentsHarmless ==
    \A id \in Ids \ DOMAIN graph : \A parent_ids \in ParentLists :
        (/\ Dedup(parent_ids) # parent_ids
         /\ ~HasAbsentParent(graph, parent_ids)) =>
            /\ LET r == create(graph, id, parent_ids, 0)
                   d == create(graph, id, Dedup(parent_ids), 0)
               IN  r.out = d.out /\ r.g = d.g
            /\ \A f \in Faults :
                   LET r == create(graph, id, parent_ids, f)
                   IN  r.at = 200 => r.out = "bad_alloc" /\ r.g = graph

====
